---- MODULE Spec2Model ----
(***************************************************************************)
(* A model of the SQL documentation-test harness: main_with_args / run     *)
(* (engine lifecycle), run_stateless_tests (pooled sessions),              *)
(* run_stateful_tests (ordered pipeline of per-file databases) and the     *)
(* Drop implementation of TestsEnv (teardown).                             *)
(***************************************************************************)
EXTENDS Integers, Sequences, FiniteSets, TLC

\* ------------------------------------------------------------------ bounds
\* Tests in the input files of one run of Spec, all files together.
MaxTests == 3
\* Input files of one run of Spec.
MaxFiles == 2
\* Stateful files of one run of SpecPipeline.
MaxPipeline == 5
\* Engine-side failures (errors, wrong rows) injected in one run.
MaxFaults == 1
\* Events (headings and code blocks) of one text given to the parser.
MaxEvents == 3
\* Rows of an expected table, and rows returned by one statement.
MaxRows == 2
\* Lines between the fences of an output block.
MaxLines == 3

\* --------------------------------------------------------- program constants
\* mpsc::channel(4): capacity of the channel of unused clients.
PoolCapacity == 4
\* (0..4): connection futures collected into `conns`.
NumConns == 4
\* (&mut files).take(4): stateful files admitted before the loop.
PipelineCap == 4
\* while wait_start.elapsed().as_secs() < 60
HealthTimeoutSecs == 60

\* ------------------------------------------------------------------ helpers
RECURSIVE Reverse(_)
Reverse(s) == IF s = <<>> THEN <<>> ELSE Append(Reverse(Tail(s)), Head(s))

RECURSIVE SelectFiles(_, _)
\* Iterator::partition keeps the relative order of the items of each side.
SelectFiles(fs, flag) ==
    IF fs = <<>> THEN <<>>
    ELSE IF Head(fs).stateless = flag
         THEN <<Head(fs)>> \o SelectFiles(Tail(fs), flag)
         ELSE SelectFiles(Tail(fs), flag)

RECURSIVE SumTests(_)
SumTests(fs) == IF fs = <<>> THEN 0 ELSE Len(Head(fs).tests) + SumTests(Tail(fs))

\* ------------------------------------------------------------------- inputs
\* A file as extraction builds it: `stateless` is the conjunction of
\* `transactional` over its tests (tests.iter().all(|t| t.transactional)).
TestFile(name, shape) ==
    [name |-> name,
     stateless |-> \A k \in DOMAIN shape : shape[k],
     tests |-> [k \in DOMAIN shape |-> [line |-> k, transactional |-> shape[k]]]]

Shapes == UNION {[1..n -> BOOLEAN] : n \in 0..MaxTests}

RECURSIVE SumLen(_)
SumLen(s) == IF s = <<>> THEN 0 ELSE Len(Head(s)) + SumLen(Tail(s))

\* test_parser::extract_tests_from_string on a text holding one test per entry
\* of shape: each test carries its line within that text.
extract_tests_from_string(shape) ==
    [k \in DOMAIN shape |-> [line |-> k, transactional |-> shape[k]]]

\* main.rs:147 with `=` in place of `&=`: the last test decides.
MarkedStepAssign(stateless, t) == t.transactional

\* main.rs:147: stateless &= t.transactional
MarkedStep(stateless, t) == stateless /\ t.transactional

RECURSIVE MarkedTests(_, _)
\* main.rs:146-149: the inner loop over the tests of one block.
MarkedTests(stateless, test) ==
    IF test = <<>> THEN stateless
    ELSE MarkedTests(MarkedStep(stateless, Head(test)), Tail(test))

RECURSIVE MarkedBlocks(_, _)
\* main.rs:144-153: the loop over the marked blocks; acc holds the locals
\* stateless and tests.  Lines stay relative to the block (t.line += 0).
MarkedBlocks(test_blocks, acc) ==
    IF test_blocks = <<>> THEN acc
    ELSE LET test == extract_tests_from_string(Head(test_blocks))
         IN  MarkedBlocks(Tail(test_blocks),
                          [stateless |-> MarkedTests(acc.stateless, test),
                           tests |-> acc.tests \o test])

extract_marked_tests_from_file(name, test_blocks) ==
    LET r == MarkedBlocks(test_blocks, [stateless |-> TRUE, tests |-> <<>>])
    IN  [name |-> name, stateless |-> r.stateless, tests |-> r.tests]

\* One input file: its tests (shape) read in whole-file mode (cut = -1), or in
\* marker-delimited mode from two marked blocks holding the first cut tests
\* and the rest (either block may be empty).
Extract(name, shape, cut) ==
    IF cut = -1 THEN TestFile(name, shape)
    ELSE extract_marked_tests_from_file(name,
             <<SubSeq(shape, 1, cut), SubSeq(shape, cut + 1, Len(shape))>>)

\* The input files of one run: up to MaxFiles files of any shape, holding up
\* to MaxTests tests between them, each read in either mode.
Inputs ==
    UNION {{[k \in DOMAIN q |-> Extract(k, q[k], c[k])] :
                c \in {d \in [DOMAIN q -> -1..MaxTests] :
                          \A k \in DOMAIN q : d[k] <= Len(q[k])}} :
            q \in {s \in UNION {[1..n -> Shapes] : n \in 0..MaxFiles} :
                      SumLen(s) <= MaxTests}}

\* Inputs that fill the pipeline of stateful files: one stateless file of one
\* test, then up to MaxPipeline stateful files of one test each.
PipelineInputs ==
    {[k \in 1..(n + 1) |-> TestFile(k, IF k = 1 THEN <<TRUE>> ELSE <<FALSE>>)] :
        n \in 0..MaxPipeline}

RECURSIVE Flatten(_)
\* tests.into_iter().flat_map(|file| file.tests.map(|test| (file.name, test)))
Flatten(fs) ==
    IF fs = <<>> THEN <<>>
    ELSE [k \in DOMAIN Head(fs).tests |->
            [file |-> Head(fs).name, test |-> Head(fs).tests[k]]]
         \o Flatten(Tail(fs))

\* start_postgres, lines 156-160: out_path and err_path, the files the
\* postmaster writes its stdout and stderr to.
TempLogNames == <<"postmaster-stdout.temp.log", "postmaster-stderr.temp.log">>

\* The closure copy_output_locally of TestsEnv::drop, lines 465-485: out_file
\* and err_file, the names the two logs are renamed to.
copy_output_locally == <<"postmaster-out.log", "postmaster-err.log">>

\* -------------------------------------------------------------------- state
VARIABLES
    input_paths_empty, \* args.input_paths.is_empty()
    errors,         \* the Err results of extraction, in input order
    errorReport,    \* the messages of the error main_with_args bails with
    files,          \* the TestFiles handed to run(), in input order
    pc,             \* where run() (then TestsEnv::drop) stands
    postmaster,     \* the engine process: "none", "running", "exited"
    elapsed,        \* wait_start.elapsed() inside wait_for_postmaster_start
    probe,          \* how the last psql probe of the health check ended
    faults,         \* engine-side failures injected so far
    runResult,      \* what run() returned: "none", "Ok", "Err"
    exitPath,       \* which return of run() was taken
    verdict,        \* the "test result:" line printed: "none", "ok", "FAILED"
    databases,      \* databases that exist in the engine
    roleOnce,       \* CREATE_ROLE_ONCE is initialised
    createRoleCount,\* times CREATE ROLE was run
    pool,           \* the mpsc channel of unused clients
    clientsOpen,    \* the receiving end `clients` is not dropped
    dispatched,     \* stateless tests taken from the flattened iterator
    results,        \* the oneshot slots, in dispatch order
    workers,        \* the spawned per-test tasks of the stateless pool
    collected,      \* oneshot slots awaited so far
    sharedDb,       \* effects committed in stateless_test_db
    seenStateless,  \* per slot: the effects its query saw
    running_tests,  \* FuturesOrdered of test_runner futures, in push order
    filesIter,      \* the rest of `files` (stateful, reversed)
    i,              \* db_num counter of run_stateful_tests
    reported,       \* "test ..." lines printed, in order
    fileBlocks,     \* "File: ..." headings printed, in order
    failures1,      \* failures returned by run_stateless_tests
    failures2,      \* failures returned by run_stateful_tests
    admitted,       \* history: file, db_num and connection of every test_runner
    panicked,       \* a worker task panicked on unwrap()
    dropCount,      \* times TestsEnv::drop ran
    dropLog,        \* the steps TestsEnv::drop performed, in order
    tempDir,        \* the ephemeral storage directory: "exists", "deleted"
    logs,           \* the names of the two postmaster log files (stdout, stderr)
    \* extract_tests_from_string, run on its own (SpecParser)
    consumed,       \* the events BlockParser has yielded so far
    heading_stack,  \* the texts of the headings the next block lies under
    tests,          \* the tests pushed so far
    current_test,   \* Option<Test>: <<>> or <<test>>
    parser_state,   \* "off", "running", "returned" or "panicked_..."
    \* validate_output, run on its own (SpecValidate)
    vtest,          \* the Test: its expected output and ignore_output
    voutput,        \* the SimpleQueryMessages the query returned
    vresult,        \* <<>> or <<the TestResult>>
    vagain,         \* <<>> or <<the TestResult of a second call>>
    \* parse_output, run on its own (SpecParseOutput)
    body,           \* the lines between the fences of an output block
    parsed,         \* <<>> or <<the rows parse_output returned>>
    \* print_diff, run on its own (SpecDiff)
    left,           \* the expected table
    right,          \* the received table
    diff            \* <<>> or <<the outcome of print_diff>>

vars == <<input_paths_empty, errors, errorReport, files, pc, postmaster, elapsed, probe, faults, runResult, exitPath, verdict,
          databases, roleOnce, createRoleCount, pool, clientsOpen, dispatched,
          results, workers, collected, sharedDb, seenStateless, running_tests,
          filesIter, i, reported, fileBlocks, failures1, failures2, admitted,
          panicked, dropCount, dropLog, tempDir, logs,
          consumed, heading_stack, tests, current_test, parser_state,
          vtest, voutput, vresult, vagain, body, parsed, left, right, diff>>

mainVars == <<input_paths_empty, errors, errorReport>>
parserVars == <<consumed, heading_stack, tests, current_test, parser_state>>
validateVars == <<vtest, voutput, vresult, vagain>>
parseOutputVars == <<body, parsed>>
diffVars == <<left, right, diff>>
funVars == <<parserVars, validateVars, parseOutputVars, diffVars>>
lifecycleVars == <<postmaster, elapsed, probe, dropCount, dropLog, tempDir, logs>>
dbVars == <<databases, roleOnce, createRoleCount>>
statelessVars == <<pool, clientsOpen, dispatched, results, workers, collected,
                   sharedDb, seenStateless, failures1, panicked>>
statefulVars == <<running_tests, filesIter, i, failures2, admitted>>
reportVars == <<reported, fileBlocks>>
endVars == <<runResult, exitPath, verdict>>

stateless_tests == SelectFiles(files, TRUE)
stateful_tests == SelectFiles(files, FALSE)
num_tests == SumTests(stateless_tests) + SumTests(stateful_tests)

\* What the reading of one path can fail with (main.rs:91, 101, 142), as
\* the Err results of extract_tests_from_path for up to MaxFiles files.
ErrorMessages == {"could not read file", "failed to read tests from"}

ExtractionErrors ==
    UNION {{[k \in 1..n |-> [ok |-> FALSE, err |-> [path |-> k, msg |-> m[k]]]] :
               m \in [1..n -> ErrorMessages]} : n \in 0..MaxFiles}

Start(inputs) ==
    /\ files \in inputs
    /\ errors \in ExtractionErrors
    /\ input_paths_empty \in BOOLEAN
    /\ input_paths_empty => files = <<>> /\ errors = <<>>
    /\ errorReport = <<>>
    /\ pc = "main"
    /\ postmaster = "none"
    /\ elapsed = 0
    /\ probe = "none"
    /\ faults = 0
    /\ runResult = "none"
    /\ exitPath = "none"
    /\ verdict = "none"
    /\ databases = {}
    /\ roleOnce = FALSE
    /\ createRoleCount = 0
    /\ pool = <<>>
    /\ clientsOpen = FALSE
    /\ dispatched = 0
    /\ results = <<>>
    /\ workers = {}
    /\ collected = 0
    /\ sharedDb = {}
    /\ seenStateless = {}
    /\ running_tests = <<>>
    /\ filesIter = <<>>
    /\ i = 0
    /\ reported = <<>>
    /\ fileBlocks = <<>>
    /\ failures1 = <<>>
    /\ failures2 = <<>>
    /\ admitted = <<>>
    /\ panicked = FALSE
    /\ dropCount = 0
    /\ dropLog = <<>>
    /\ tempDir = "none"
    /\ logs = TempLogNames

\* The function-level specifications are at rest during a run.
ParserOff ==
    /\ consumed = <<>>
    /\ heading_stack = <<>>
    /\ tests = <<>>
    /\ current_test = <<>>
    /\ parser_state = "off"

ValidateOff ==
    /\ vtest = <<>>
    /\ voutput = <<>>
    /\ vresult = <<>>
    /\ vagain = <<>>

ParseOutputOff ==
    /\ body = <<>>
    /\ parsed = <<>>

DiffOff ==
    /\ left = <<>>
    /\ right = <<>>
    /\ diff = <<>>

Init == Start(Inputs) /\ ParserOff /\ ValidateOff /\ ParseOutputOff /\ DiffOff

InitPipeline ==
    Start(PipelineInputs) /\ ParserOff /\ ValidateOff /\ ParseOutputOff /\ DiffOff

\* ------------------------------------------------------ the engine's answers
\* What an engine operation can answer: nothing but an error once the
\* postmaster has exited; a failure only while the fault budget lasts.
Outcomes(good, bad) ==
    IF postmaster # "running" THEN {"err"}
    ELSE IF faults < MaxFaults THEN good \cup bad ELSE good

Charge(o, good) ==
    faults' = IF postmaster = "running" /\ o \notin good THEN faults + 1 ELSE faults

\* ----------------------------------------------------------- run(): returns
\* A return of run() before the TestsEnv exists: nothing to tear down; the
\* TempDir value is dropped, which deletes the directory.
ReturnEarly(path) ==
    /\ runResult' = "Err"
    /\ exitPath' = path
    /\ pc' = "done"
    /\ tempDir' = "deleted"
    /\ UNCHANGED <<verdict, dropCount, dropLog, logs>>

\* A return of run() while `tester` is alive: the value goes out of scope and
\* TestsEnv::drop runs.
ReturnDroppingTester(res, path) ==
    /\ runResult' = res
    /\ exitPath' = path
    /\ pc' = "drop_try_wait"
    /\ dropCount' = dropCount + 1
    /\ dropLog' = <<>>

\* ---------------------------------------------------------- main_with_args
\* Mutant of CollectErrors: only the first error is kept.
CollectFirstError(errs) == <<Head(errs).err>>

\* main.rs:54-57: unwrap_err of every Err result, formatted and collected
\* into one message.
CollectErrors(errs) == [k \in DOMAIN errs |-> errs[k].err]

\* bail! in main_with_args: run() is never called.
MainBail(message, path) ==
    /\ runResult' = "Err"
    /\ exitPath' = path
    /\ errorReport' = message
    /\ pc' = "done"
    /\ UNCHANGED <<verdict, tempDir>>

\* main.rs:43-64, up to the first lines of run() that create the TempDir.
main_with_args ==
    /\ pc = "main"
    /\ IF input_paths_empty
       THEN MainBail(<<[path |-> 0, msg |-> "no input files provided"]>>, "no_input")
       ELSE IF errors # <<>>
       THEN MainBail(CollectErrors(errors), "extraction")
       ELSE /\ pc' = "initdb"
            /\ tempDir' = "exists"
            /\ UNCHANGED <<errorReport, endVars>>
    /\ UNCHANGED <<files, input_paths_empty, errors, funVars, faults, postmaster, elapsed,
                   probe, dropCount, dropLog, logs, dbVars, statelessVars,
                   statefulVars, reportVars>>

\* -------------------------------------------------- run(): engine lifecycle
\* initdb -D data_dir; the configuration lines are appended on success.
InitDb ==
    /\ pc = "initdb"
    /\ \/ /\ pc' = "spawn"
          /\ UNCHANGED <<endVars, lifecycleVars>>
       \/ /\ ReturnEarly("initdb")
          /\ UNCHANGED <<postmaster, elapsed, probe>>
    /\ UNCHANGED <<files, mainVars, funVars, faults, dbVars, statelessVars, statefulVars, reportVars>>

\* start_postgres: open the two temp logs and spawn the postmaster.
start_postgres ==
    /\ pc = "spawn"
    /\ \/ /\ postmaster' = "running"
          /\ pc' = "health"
          /\ UNCHANGED <<endVars, elapsed, probe, dropCount, dropLog, tempDir, logs>>
       \/ /\ ReturnEarly("spawn")
          /\ UNCHANGED <<postmaster, elapsed, probe>>
    /\ UNCHANGED <<files, mainVars, funVars, faults, dbVars, statelessVars, statefulVars, reportVars>>

\* The postmaster may exit on its own at any time while the run is going on.
PostmasterExits ==
    /\ postmaster = "running"
    /\ pc \notin {"done", "drop_kill", "drop_wait"}
    /\ postmaster' = "exited"
    /\ UNCHANGED <<files, mainVars, funVars, pc, elapsed, probe, faults, endVars, dbVars, statelessVars,
                   statefulVars, reportVars, dropCount, dropLog, tempDir, logs>>

\* Mutant of HealthBail: the health check fails before a TestsEnv owns the
\* postmaster, so nothing tears it down.
HealthBailLeak(path) ==
    /\ runResult' = "Err"
    /\ exitPath' = path
    /\ pc' = "done"
    /\ elapsed' = 0
    /\ UNCHANGED <<verdict, postmaster, tempDir, logs, dropCount, dropLog>>

\* bail!/? inside wait_for_postmaster_start, propagated by run().
HealthBail(path) ==
    /\ ReturnDroppingTester("Err", path)
    /\ elapsed' = 0
    /\ UNCHANGED <<verdict, postmaster, tempDir, logs>>

\* Mutant of PollNext: the exit of the postmaster is not looked for.
PollNextIgnoringExit(success, status) == IF success THEN "return_ok" ELSE "sleep"

\* Lines 210-217: what the loop does after a probe; status is what try_wait
\* finds.
PollNext(success, status) ==
    IF success THEN "return_ok"
    ELSE IF status = "exited" THEN "bail"
    ELSE "sleep"

\* One iteration of the polling loop of wait_for_postmaster_start: the psql
\* probe can connect only to a running postmaster.
wait_for_postmaster_start ==
    /\ pc = "health"
    /\ IF elapsed < HealthTimeoutSecs
       THEN \E success \in (IF postmaster = "running" THEN BOOLEAN ELSE {FALSE}) :
               /\ probe' = IF success THEN "ok"
                           ELSE IF postmaster = "exited" THEN "failed_exited"
                           ELSE "failed"
               /\ CASE PollNext(success, postmaster) = "return_ok" ->
                         /\ pc' = "stateless_createdb"
                         /\ elapsed' = 0          \* wait_start goes out of scope
                         /\ UNCHANGED <<endVars, postmaster, dropCount, dropLog,
                                        tempDir, logs>>
                    [] PollNext(success, postmaster) = "bail" ->
                         HealthBail("health_exit")
                    [] PollNext(success, postmaster) = "sleep" ->
                         /\ elapsed' = elapsed + 1
                         /\ UNCHANGED <<pc, endVars, postmaster, dropCount, dropLog,
                                        tempDir, logs>>
       ELSE /\ HealthBail("health_timeout")
            /\ UNCHANGED probe
    /\ UNCHANGED <<files, mainVars, funVars, faults, dbVars, statelessVars, statefulVars, reportVars>>

\* ------------------------------------------------------------------ createdb
stateless_test_db == [prefix |-> "stateless_test_db", num |-> 0]
\* format!("stateful-tests-{db_num}")
dbname(db_num) == [prefix |-> "stateful-tests-", num |-> db_num]

\* The ways one call of createdb can end: the createdb command fails
\* ("createdb_err"); the database is made but CREATE ROLE, run when the
\* OnceCell is still empty, fails ("role_err"); or it returns a DbDropper.
createdbOutcomes ==
    Outcomes({"ok"}, {"createdb_err"} \cup (IF roleOnce THEN {} ELSE {"role_err"}))

\* Mutant of createdb: CREATE ROLE is run by every call, without the OnceCell.
createdbRoleEveryCall(name, o) ==
    /\ databases' = IF o \in {"ok", "role_err"} THEN databases \cup {name} ELSE databases
    /\ createRoleCount' = IF o \in {"ok", "role_err"}
                          THEN createRoleCount + 1 ELSE createRoleCount
    /\ roleOnce' = (roleOnce \/ o = "ok")

createdb(name, o) ==
    /\ databases' = IF o \in {"ok", "role_err"} THEN databases \cup {name}
                    ELSE databases
    /\ createRoleCount' = IF o \in {"ok", "role_err"} /\ ~roleOnce
                          THEN createRoleCount + 1 ELSE createRoleCount
    /\ roleOnce' = (roleOnce \/ o = "ok")

\* DbDropper::drop: dropdb -f
dropdb(name, o) ==
    databases' = IF o = "ok" THEN databases \ {name} ELSE databases

\* --------------------------------------------------------- print_test_result
validate_output(result) == IF result = "match" THEN "Passed" ELSE "Failed"

print_test_result(file_name, test, result, failures) ==
    IF result = "err"
    THEN Append(failures, [file |-> file_name, test |-> test.line,
                           failure |-> "QueryError"])
    ELSE IF validate_output(result) = "Passed" THEN failures
    ELSE Append(failures, [file |-> file_name, test |-> test.line,
                           failure |-> "ValidationError"])

\* The "test {header}... " line print_test_result prints in either case.
TestLine(file_name, test) == [file |-> file_name, test |-> test.line]

\* ------------------------------------------------------- run_stateless_tests
StatelessSeq == Flatten(stateless_tests)

\* `?` inside run_stateless_tests, propagated by run() at line 118.
StatelessBail(path) ==
    /\ ReturnDroppingTester("Err", path)
    /\ UNCHANGED <<verdict, postmaster, elapsed, probe, tempDir, logs>>

\* let db = self.createdb("stateless_test_db")?
StatelessCreateDb ==
    /\ pc = "stateless_createdb"
    /\ \E o \in createdbOutcomes :
          /\ createdb(stateless_test_db, o)
          /\ Charge(o, {"ok"})
          /\ IF o = "ok"
             THEN /\ pc' = "stateless_connect"
                  /\ UNCHANGED <<endVars, lifecycleVars>>
             ELSE StatelessBail("stateless_createdb")
    /\ UNCHANGED <<files, mainVars, funVars, statelessVars, statefulVars, reportVars>>

\* Mutant of ForOverOption: no connection is put in the channel.
ForOverNone(conns) == <<>>

\* Mutant of ForOverOption: every connection is put in the channel.
ForOverAll(conns) == conns

\* `for conn in (&mut conns).next().await`: the loop runs over the Option that
\* next() yields, so over the first connection only.
ForOverOption(conns) == IF conns = <<>> THEN <<>> ELSE <<Head(conns)>>

\* Lines 235-255: the channel, the connections, the clients put in the channel.
StatelessConnect ==
    /\ pc = "stateless_connect"
    /\ \E o \in Outcomes({"ok"}, {"err"}) :
          /\ Charge(o, {"ok"})
          /\ IF o = "ok"
             THEN /\ pool' = ForOverOption([c \in 1..NumConns |-> c])
                  /\ clientsOpen' = TRUE
                  /\ pc' = "stateless_dispatch"
                  /\ UNCHANGED <<endVars, lifecycleVars>>
             ELSE /\ StatelessBail("stateless_connect")
                  /\ UNCHANGED <<pool, clientsOpen>>
    /\ UNCHANGED <<files, mainVars, funVars, dbVars, dispatched, results, workers, collected,
                   sharedDb, seenStateless, failures1, panicked, statefulVars,
                   reportVars>>

\* Mutant of RecvRest: the client is read but stays in the channel.
RecvPeek(ch) == ch

\* clients.recv(): the client at the head of the channel leaves it.
RecvRest(ch) == Tail(ch)

\* One iteration of `while let Some(client) = clients.recv().await`.
StatelessDispatch ==
    /\ pc = "stateless_dispatch"
    /\ pool # <<>>
    /\ pool' = RecvRest(pool)
    /\ IF dispatched >= Len(StatelessSeq)
       THEN /\ pc' = "stateless_collect"           \* None => break
            /\ UNCHANGED <<dispatched, results, workers>>
       ELSE /\ dispatched' = dispatched + 1
            /\ results' = Append(results, <<>>)          \* oneshot::channel()
            /\ workers' = workers \cup
                 {[slot |-> dispatched + 1, client |-> Head(pool),
                   file |-> StatelessSeq[dispatched + 1].file,
                   test |-> StatelessSeq[dispatched + 1].test,
                   pc |-> "transaction", out |-> "none", pending |-> {}]}
            /\ pc' = pc
    /\ UNCHANGED <<files, mainVars, funVars, faults, endVars, lifecycleVars, dbVars, clientsOpen,
                   collected, sharedDb, seenStateless, failures1, panicked,
                   statefulVars, reportVars>>


\* Mutant of StatelessRollback: the transaction is committed.
StatelessCommit(db, pending) == db \cup pending

\* `let _ = txn.rollback().await` (line 281): what is committed once the
\* transaction holding `pending` has ended.
StatelessRollback(db, pending) == db

\* The spawned task of one stateless test (lines 274-289), one await at a time.
WorkerStep(w) ==
    /\ pc # "done"
    /\ \/ /\ w.pc = "transaction"                  \* client.transaction().await
          /\ \E o \in Outcomes({"ok"}, {"err"}) :
                /\ Charge(o, {"ok"})
                /\ workers' = (workers \ {w}) \cup
                     {IF o = "ok" THEN [w EXCEPT !.pc = "query"]
                      ELSE [w EXCEPT !.pc = "send", !.out = "err"]}
          /\ UNCHANGED <<pool, results, sharedDb, seenStateless, panicked>>
       \/ /\ w.pc = "query"                        \* txn.simple_query(..).await
          /\ \E o \in Outcomes({"match"}, {"differ", "err"}) :
                /\ Charge(o, {"match"})
                /\ workers' = (workers \ {w}) \cup
                     {[w EXCEPT !.pc = "rollback", !.out = o,
                                !.pending = IF o = "err" THEN {} ELSE {w.slot}]}
          /\ seenStateless' = seenStateless \cup
                {[slot |-> w.slot, seen |-> sharedDb \cup w.pending]}
          /\ UNCHANGED <<pool, results, sharedDb, panicked>>
       \/ /\ w.pc = "rollback"                     \* txn.rollback().await
          /\ sharedDb' = StatelessRollback(sharedDb, w.pending)
          /\ workers' = (workers \ {w}) \cup
                {[w EXCEPT !.pc = "send", !.pending = {}]}
          /\ UNCHANGED <<faults, pool, results, seenStateless, panicked>>
       \/ /\ w.pc = "send"                         \* send.send((file, test, result))
          /\ results' = [results EXCEPT ![w.slot] =
                            <<[file |-> w.file, test |-> w.test, result |-> w.out]>>]
          /\ workers' = (workers \ {w}) \cup {[w EXCEPT !.pc = "return"]}
          /\ UNCHANGED <<faults, pool, sharedDb, seenStateless, panicked>>
       \/ /\ w.pc = "return"                       \* unused_clients.send(client)
          /\ IF clientsOpen
             THEN /\ Len(pool) < PoolCapacity
                  /\ pool' = Append(pool, w.client)
                  /\ UNCHANGED panicked
             ELSE /\ panicked' = TRUE              \* .unwrap() on a closed channel
                  /\ UNCHANGED pool
          /\ workers' = workers \ {w}
          /\ UNCHANGED <<faults, results, sharedDb, seenStateless>>
    /\ UNCHANGED <<files, mainVars, funVars, pc, endVars, lifecycleVars, dbVars, clientsOpen,
                   dispatched, collected, failures1, statefulVars, reportVars>>

Worker == \E w \in workers : WorkerStep(w)

\* Mutant of NextAwaited: the slots are awaited from the last one back.
NextAwaitedReversed(n, len) == len - n

\* `for result in results`: the slot awaited after `n` slots were awaited.
NextAwaited(n, len) == n + 1

\* The "File: ..." heading printed when the file name changes.
FileHeading(blocks, file_name) ==
    IF blocks # <<>> /\ blocks[Len(blocks)] = file_name THEN blocks
    ELSE Append(blocks, file_name)

\* One iteration of lines 294-302: await the next oneshot, print its result.
StatelessCollect ==
    /\ pc = "stateless_collect"
    /\ collected < Len(results)
    /\ results[NextAwaited(collected, Len(results))] # <<>>
    /\ LET r == results[NextAwaited(collected, Len(results))][1] IN
          /\ fileBlocks' = FileHeading(fileBlocks, r.file)
          /\ reported' = Append(reported, TestLine(r.file, r.test))
          /\ failures1' = print_test_result(r.file, r.test, r.result, failures1)
    /\ collected' = collected + 1
    /\ UNCHANGED <<files, mainVars, funVars, pc, faults, endVars, lifecycleVars, dbVars, pool,
                   clientsOpen, dispatched, results, workers, sharedDb,
                   seenStateless, panicked, statefulVars>>

\* Lines 304-309: both channel ends dropped, the shared database dropped.
StatelessFinish ==
    /\ pc = "stateless_collect"
    /\ collected = Len(results)
    /\ clientsOpen' = FALSE
    /\ pool' = <<>>
    /\ \E o \in Outcomes({"ok"}, {"err"}) :
          /\ Charge(o, {"ok"})
          /\ dropdb(stateless_test_db, o)
          /\ IF o = "ok"
             THEN /\ pc' = "stateful_start"
                  /\ UNCHANGED <<endVars, lifecycleVars>>
             ELSE StatelessBail("stateless_dropdb")
    /\ UNCHANGED <<files, mainVars, funVars, roleOnce, createRoleCount, dispatched, results, workers,
                   collected, sharedDb, seenStateless, failures1, panicked,
                   statefulVars, reportVars>>


\* -------------------------------------------------------- run_stateful_tests
\* test_runner(test_file, db_num), not yet polled.
test_runner(test_file, db_num) ==
    [file |-> test_file, db_num |-> db_num, pc |-> "start", idx |-> 0,
     cur |-> "none", results |-> <<>>, out |-> "none",
     db |-> {}, pending |-> {}, seen |-> <<>>, log |-> <<>>]

Sent(t, op, k) == Append(t.log, [op |-> op, test |-> k, ev |-> "sent"])
Done(t) == Append(t.log, [op |-> t.pc, test |-> t.idx, ev |-> "done"])

\* Mutant of NextTest: every other test is taken.
NextTestSkipping(k) == k + 2

\* `for test in test_file.tests`: the test taken after test k.
NextTest(k) == k + 1

\* Mutant of StatefulRollback: the transaction is committed.
StatefulCommit(db, pending) == db \cup pending

\* `let _ = txn.rollback().await` (line 345): what is committed once the
\* transaction holding `pending` has ended.
StatefulRollback(db, pending) == db

\* The future ends with Err through `?`: the DbDropper is dropped unused.
TaskErr(t) == [t EXCEPT !.pc = "done", !.out = "Err", !.log = Done(t)]

\* The top of the loop over the tests, test k being next: the first request
\* of test k goes out, or after the last test the future ends with Ok.
EnterTest(t, k) ==
    IF k > Len(t.file.tests)
    THEN [t EXCEPT !.pc = "done", !.out = "Ok", !.idx = k]
    ELSE IF t.file.tests[k].transactional
    THEN [t EXCEPT !.pc = "transaction", !.idx = k, !.log = Sent(t, "transaction", k)]
    ELSE [t EXCEPT !.pc = "query", !.idx = k, !.log = Sent(t, "query", k)]

\* The task after the await it stands at has completed with outcome o.
TaskAfter(t, o) ==
    LET d == [t EXCEPT !.log = Done(t)] IN
    CASE t.pc = "start" ->                        \* createdb, then connect
           IF o = "ok" THEN [t EXCEPT !.pc = "connect"]
           ELSE [t EXCEPT !.pc = "done", !.out = "Err"]
      [] t.pc = "connect" ->
           IF o = "ok" THEN EnterTest(t, NextTest(0))
           ELSE [t EXCEPT !.pc = "done", !.out = "Err"]
      [] t.pc = "transaction" ->                  \* client.transaction().await?
           IF o = "ok"
           THEN [d EXCEPT !.pc = "query", !.log = Sent(d, "query", t.idx)]
           ELSE TaskErr(t)
      [] t.pc = "query" ->
           LET q == [d EXCEPT !.seen = Append(t.seen, t.db \cup t.pending)] IN
           IF t.file.tests[t.idx].transactional
           THEN [q EXCEPT !.pc = "rollback", !.cur = o,
                          !.pending = IF o = "err" THEN {} ELSE {t.idx},
                          !.log = Sent(d, "rollback", t.idx)]
           ELSE EnterTest([q EXCEPT !.results = Append(t.results, o),
                                    !.db = IF o = "err" THEN t.db
                                           ELSE t.db \cup {t.idx}],
                          NextTest(t.idx))
      [] t.pc = "rollback" ->
           EnterTest([d EXCEPT !.results = Append(t.results, t.cur),
                               !.cur = "none",
                               !.db = StatefulRollback(t.db, t.pending),
                               !.pending = {}],
                     NextTest(t.idx))

TaskOutcomes(t) ==
    CASE t.pc = "start" -> createdbOutcomes
      [] t.pc = "query" -> Outcomes({"match"}, {"differ", "err"})
      [] t.pc = "rollback" -> {"ok"}
      [] OTHER -> Outcomes({"ok"}, {"err"})

\* The history once the task of file `name` has connected (line 327) to `db`.
Connected(adm, name, db) ==
    [a \in DOMAIN adm |->
        IF adm[a].file = name THEN [adm[a] EXCEPT !.conn = <<db>>] ELSE adm[a]]

\* One await of the k-th future of running_tests completes. The futures are
\* polled by the `next().await` of the loop at line 372.
TaskStep(k) ==
    /\ pc = "stateful_loop"
    /\ LET t == running_tests[k] IN
       /\ t.pc # "done"
       /\ \E o \in TaskOutcomes(t) :
          LET u == TaskAfter(t, o)
              good == o \in {"ok", "match"}
              ends == u.pc = "done" /\ u.out = "Ok"
              spent == IF good \/ postmaster # "running" THEN faults ELSE faults + 1
          IN
          \* drop(client); let _ = db.drop(); when the future ends with Ok
          \E dr \in (IF ~ends THEN {"none"}
                     ELSE IF postmaster # "running" THEN {"err"}
                     ELSE IF spent < MaxFaults THEN {"ok", "err"} ELSE {"ok"}) :
             /\ running_tests' = [running_tests EXCEPT ![k] = u]
             /\ admitted' = IF t.pc = "connect" /\ o = "ok"
                            THEN Connected(admitted, t.file.name, dbname(t.db_num))
                            ELSE admitted
             /\ faults' = IF postmaster # "running" THEN faults
                          ELSE spent + (IF dr = "err" THEN 1 ELSE 0)
             /\ IF t.pc = "start"
                THEN createdb(dbname(t.db_num), o)
                ELSE /\ UNCHANGED <<roleOnce, createRoleCount>>
                     /\ IF ends THEN dropdb(dbname(t.db_num), dr)
                        ELSE UNCHANGED databases
    /\ UNCHANGED <<files, mainVars, funVars, pc, endVars, lifecycleVars, statelessVars, filesIter,
                   i, failures2, reportVars>>

Task == \E k \in DOMAIN running_tests : TaskStep(k)


\* Mutant of NextDbNum: the counter is not advanced.
NextDbNumSame(n) == n

\* `i += 1` (lines 366 and 384): the db_num of the next test_runner.
NextDbNum(n) == n + 1

RECURSIVE DbNumAfter(_, _)
\* The counter after k passes of the loop at lines 365-368.
DbNumAfter(n, k) == IF k = 0 THEN n ELSE NextDbNum(DbNumAfter(n, k - 1))

Admit(file, db_num) == [file |-> file.name, db_num |-> db_num, conn |-> <<>>]

Min(a, b) == IF a < b THEN a ELSE b

\* Mutant of Take: one item too many.
TakeOneMore(q, n) == SubSeq(q, 1, Min(n + 1, Len(q)))

\* Iterator::take(n)
Take(q, n) == SubSeq(q, 1, Min(n, Len(q)))

\* Lines 318-367: the reversed iterator over the files and the first futures.
StatefulStart ==
    /\ pc = "stateful_start"
    /\ LET fs == Reverse(stateful_tests)
           first == Take(fs, PipelineCap)
       IN /\ running_tests' = [k \in DOMAIN first |->
                                  test_runner(first[k], DbNumAfter(0, k))]
          /\ admitted' = [k \in DOMAIN first |-> Admit(first[k], DbNumAfter(0, k))]
          /\ i' = DbNumAfter(0, Len(first))
          /\ filesIter' = SubSeq(fs, Len(first) + 1, Len(fs))
    /\ pc' = "stateful_loop"
    /\ UNCHANGED <<files, mainVars, funVars, faults, endVars, lifecycleVars, dbVars, statelessVars,
                   failures2, reportVars>>

\* Mutant of NextOutput: FuturesUnordered, any finished future is yielded.
NextOutputUnordered(q) ==
    IF q = <<>> THEN 0
    ELSE IF \E k \in DOMAIN q : q[k].pc = "done"
         THEN CHOOSE k \in DOMAIN q :
                 /\ q[k].pc = "done"
                 /\ \A j \in 1..(k - 1) : q[j].pc # "done"
         ELSE 1

\* FuturesOrdered::next(): the position in the queue of the future whose
\* output is yielded next (0: the queue is empty and next() yields None).
NextOutput(q) == IF q = <<>> THEN 0 ELSE 1

Remove(q, k) == SubSeq(q, 1, k - 1) \o SubSeq(q, k + 1, Len(q))

RECURSIVE ReportFailures(_, _, _, _)
\* for (test, result) in result { print_test_result(..) }, from test k on
ReportFailures(t, k, res, failures) ==
    IF k > Len(res) THEN failures
    ELSE ReportFailures(t, k + 1, res,
            print_test_result(t.file.name, t.file.tests[k], res[k], failures))

\* `for result in results` at line 374 runs over a Result: over the one Ok
\* value, and over nothing when the future ended with Err.
ForOverResult(t) == IF t.out = "Ok" THEN t.results ELSE <<>>

\* One iteration of the loop of lines 371-393.
StatefulNext ==
    /\ pc = "stateful_loop"
    /\ LET n == NextOutput(running_tests)
           rest == IF n = 0 THEN running_tests ELSE Remove(running_tests, n)
       IN
       /\ n # 0 => running_tests[n].pc = "done"
       /\ IF n # 0 /\ running_tests[n].out = "Ok"
          THEN LET t == running_tests[n]
                   res == ForOverResult(t)
               IN /\ fileBlocks' = Append(fileBlocks, t.file.name)
                  /\ reported' = reported \o
                        [k \in DOMAIN res |-> TestLine(t.file.name, t.file.tests[k])]
                  /\ failures2' = ReportFailures(t, 1, res, failures2)
          ELSE UNCHANGED <<fileBlocks, reported, failures2>>
       /\ IF filesIter # <<>>
          THEN /\ i' = NextDbNum(i)
               /\ running_tests' = Append(rest, test_runner(Head(filesIter), NextDbNum(i)))
               /\ admitted' = Append(admitted, Admit(Head(filesIter), NextDbNum(i)))
               /\ filesIter' = Tail(filesIter)
               /\ pc' = pc
          ELSE /\ running_tests' = rest
               /\ pc' = IF rest = <<>> THEN "summary" ELSE pc
               /\ UNCHANGED <<i, filesIter, admitted>>
    /\ UNCHANGED <<files, mainVars, funVars, faults, endVars, lifecycleVars, dbVars, statelessVars>>

\* ------------------------------------------------------ run(): lines 121-143
\* What run() returns after the summary.
RunResult(f1, f2) == "Ok"

Summary ==
    /\ pc = "summary"
    /\ verdict' = IF failures1 = <<>> /\ failures2 = <<>> THEN "ok" ELSE "FAILED"
    /\ ReturnDroppingTester(RunResult(failures1, failures2), "completed")
    /\ UNCHANGED <<files, mainVars, funVars, faults, postmaster, elapsed, probe, tempDir, logs, dbVars,
                   statelessVars, statefulVars, reportVars>>

RECURSIVE SummaryHeadings(_, _)
\* Lines 123-130: the "File: ..." headings of the failure listing, one each time
\* the file of the next failure differs from current_file (0: none yet).
SummaryHeadings(failures, current_file) ==
    IF failures = <<>> THEN <<>>
    ELSE IF Head(failures).file # current_file
         THEN <<Head(failures).file>>
              \o SummaryHeadings(Tail(failures), Head(failures).file)
         ELSE SummaryHeadings(Tail(failures), current_file)

\* Lines 133-134: the two counts of the "test result" line.
num_failed == Len(failures1) + Len(failures2)

num_passed == num_tests - num_failed

\* ----------------------------------------------------- impl Drop for TestsEnv
\* A call into the operating system (try_wait, kill, wait): it fails only
\* while the fault budget lasts.
OsOutcomes == IF faults < MaxFaults THEN {"ok", "err"} ELSE {"ok"}

OsCharge(o) == faults' = IF o = "ok" THEN faults ELSE faults + 1

\* Mutant of ManuallyDropKept: a plain TempDir field, dropped with its owner.
TempDirDropped(dir) == "deleted"

\* temp_dir: ManuallyDrop<TempDir> (lines 37, 180): when the TestsEnv is dropped
\* without ManuallyDrop::drop being called, the directory stays as it is.
ManuallyDropKept(dir) == dir

\* Lines 486-488 and 518-520: try_wait. Ok(Some(_)): the postmaster has exited
\* and copy_output_locally renames the logs; Ok(None): it is running; Err: the
\* error is reported.
DropBegin ==
    /\ pc = "drop_try_wait"
    /\ \E o \in OsOutcomes :
          /\ OsCharge(o)
          /\ IF o = "err"
             THEN /\ dropLog' = dropLog \o <<"try_wait_error", "report_try_wait_error">>
                  /\ tempDir' = ManuallyDropKept(tempDir)
                  /\ pc' = "done"
                  /\ UNCHANGED logs
             ELSE IF postmaster = "exited"
             THEN /\ dropLog' = dropLog \o <<"exited", "rename">>
                  /\ logs' = copy_output_locally
                  /\ tempDir' = ManuallyDropKept(tempDir)
                  /\ pc' = "done"
             ELSE /\ dropLog' = dropLog \o <<"running">>
                  /\ pc' = "drop_kill"
                  /\ UNCHANGED <<logs, tempDir>>
    /\ UNCHANGED <<files, mainVars, funVars, endVars, postmaster, elapsed, probe, dropCount,
                   dbVars, statelessVars, statefulVars, reportVars>>

\* Mutant of KillNext: the result of kill is not looked at.
KillNextIgnoringError(result) == "drop_wait"

\* `match result` (lines 499-516): where drop goes on after kill returned.
KillNext(result) == IF result = "ok" THEN "drop_wait" ELSE "done"

\* Lines 489-506: kill(pid, SIGTERM); its error is reported and nothing more
\* is done.
DropKill ==
    /\ pc = "drop_kill"
    /\ \E result \in OsOutcomes :
          /\ OsCharge(result)
          /\ pc' = KillNext(result)
          /\ IF result = "ok"
             THEN /\ dropLog' = dropLog \o <<"signal">>
                  /\ UNCHANGED tempDir
             ELSE /\ dropLog' = dropLog \o <<"kill_error", "report_kill_error">>
                  /\ tempDir' = ManuallyDropKept(tempDir)
    /\ UNCHANGED <<files, mainVars, funVars, endVars, postmaster, elapsed, probe, dropCount, logs,
                   dbVars, statelessVars, statefulVars, reportVars>>

\* Lines 507-515: `let _ = self.postmaster.wait()`, "stopped", the logs are
\* renamed, the TempDir dropped. When wait() fails its error is discarded;
\* whether the postmaster has exited is then not known.
DropWait ==
    /\ pc = "drop_wait"
    /\ \E o \in OsOutcomes :
          /\ OsCharge(o)
          /\ postmaster' \in (IF o = "ok" THEN {"exited"} ELSE {"running", "exited"})
          /\ dropLog' = dropLog \o (IF o = "ok" THEN <<"wait">>
                                     ELSE <<"wait", "wait_error">>)
                                 \o <<"rename", "delete">>
    /\ logs' = copy_output_locally
    /\ tempDir' = "deleted"
    /\ pc' = "done"
    /\ UNCHANGED <<files, mainVars, funVars, endVars, elapsed, probe, dropCount, dbVars,
                   statelessVars, statefulVars, reportVars>>

\* ------------------------------------------------------------- specification
Next ==
    \/ main_with_args
    \/ InitDb
    \/ start_postgres
    \/ PostmasterExits
    \/ wait_for_postmaster_start
    \/ StatelessCreateDb
    \/ StatelessConnect
    \/ StatelessDispatch
    \/ Worker
    \/ StatelessCollect
    \/ StatelessFinish
    \/ StatefulStart
    \/ Task
    \/ StatefulNext
    \/ Summary
    \/ DropBegin
    \/ DropKill
    \/ DropWait

Spec == Init /\ [][Next]_vars

\* The same program on inputs that fill the pipeline of stateful files.
SpecPipeline == InitPipeline /\ [][Next]_vars

\* The run under a scheduler that lets the orchestrator and every spawned task
\* go on whenever they can, with every query and rollback completing.
SpecLive ==
    /\ Init
    /\ [][Next]_vars
    /\ WF_vars(StatelessDispatch)
    /\ WF_vars(Worker)
    /\ WF_vars(StatelessCollect)
    /\ WF_vars(StatelessFinish)


\* ================================================= extract_tests_from_string
\* test_parser.rs on its own: BlockParser yields one event after the other and
\* the loop of extract_tests_from_string consumes it. A text is a sequence of
\* characters.
runVars == <<files, mainVars, pc, faults, endVars, lifecycleVars, dbVars,
             statelessVars, statefulVars, reportVars>>

RECURSIVE SplitAt(_, _, _)
\* str::split(sep): cur is the piece read so far.
SplitAt(s, sep, cur) ==
    IF s = <<>> THEN <<cur>>
    ELSE IF Head(s) = sep THEN <<cur>> \o SplitAt(Tail(s), sep, <<>>)
    ELSE SplitAt(Tail(s), sep, Append(cur, Head(s)))

split(s, sep) == SplitAt(s, sep, <<>>)

RECURSIVE trim_start(_)
trim_start(s) == IF s # <<>> /\ Head(s) = " " THEN trim_start(Tail(s)) ELSE s

RECURSIVE trim_end(_)
trim_end(s) ==
    IF s # <<>> /\ s[Len(s)] = " " THEN trim_end(SubSeq(s, 1, Len(s) - 1)) ELSE s

\* Mutant of trim: only the start is trimmed.
TrimLeftOnly(s) == trim_start(s)

\* str::trim
trim(s) == trim_end(trim_start(s))

\* Iterator::skip(n)
skip(s, n) == SubSeq(s, n + 1, Len(s))

\* Lines 117-128: the rows of an output block, without the line of column
\* names and the separator line.
parse_output(s) ==
    LET rows == skip(split(s, "\n"), 2)
    IN  [r \in DOMAIN rows |->
            LET cells == split(rows[r], "|")
            IN  [c \in DOMAIN cells |-> trim(cells[c])]]

\* Mutant of to_ascii_lowercase: the token is compared as written.
KeepCase(token) == token

\* trim().to_ascii_lowercase() on the tokens used here.
to_ascii_lowercase(token) ==
    CASE token = "SQL" -> "sql"
      [] token = "Ignore" -> "ignore"
      [] OTHER -> token

\* Line 84-94: the closure run on every token of the attribute list.
SetFlag(f, token) ==
    LET t == to_ascii_lowercase(token) IN
    CASE t = "output" -> [f EXCEPT !.is_output = TRUE]
      [] t = "sql" -> [f EXCEPT !.is_sql = TRUE]
      [] t = "ignore" -> [f EXCEPT !.is_ignored = TRUE]
      [] t \in {"stateful", "non-transactional"} -> [f EXCEPT !.is_stateful = TRUE]
      [] t = "ignore-output" -> [f EXCEPT !.is_ignoring_output = TRUE]
      [] OTHER -> f

RECURSIVE ForEachToken(_, _)
ForEachToken(attrs, f) ==
    IF attrs = <<>> THEN f ELSE ForEachToken(Tail(attrs), SetFlag(f, Head(attrs)))

\* Lines 74-115. attrs is the attribute list split at its commas; kind "todo"
\* stands for the todo!() of line 101.
parse_code_block_attrs(attrs) ==
    LET f == ForEachToken(attrs, [is_sql |-> FALSE, is_stateful |-> FALSE,
                                  is_ignoring_output |-> FALSE,
                                  is_output |-> FALSE, is_ignored |-> FALSE])
    IN  IF f.is_ignored THEN [kind |-> "Other"]
        ELSE IF f.is_output
             THEN IF f.is_stateful THEN [kind |-> "todo"]
                  ELSE [kind |-> "Output", ignore |-> f.is_ignored]
        ELSE IF f.is_sql
             THEN [kind |-> "Sql", ignore_output |-> f.is_ignored,
                   stateless |-> ~f.is_stateful]
        ELSE [kind |-> "Other"]

\* The attribute tokens of the inputs, and the attribute lists made of up to
\* two of them.
TokenList ==
    <<"SQL", "output", "ignore", "Ignore", "stateful", "ignore-output",
      "precision(1: 3)">>

AttrLists ==
    {SelectSeq(TokenList, LAMBDA t : t \in S) :
        S \in {T \in SUBSET {TokenList[k] : k \in DOMAIN TokenList} :
                  Cardinality(T) <= 2}}

\* The text of an sql block; the texts of an output block: the empty text, and
\* a table of one row under its column names and separator.
SqlText == <<"q">>

OutputTexts ==
    {<<>>,
     <<"a", "|", "b", "\n", "-", "+", "-", "\n", " ", "1", " ", "|", "2">>}

\* The code blocks of the inputs: any attribute list; a block with the token
\* output has either output text.
CodeBlocks ==
    UNION {{[attributes |-> a, contents |-> c] :
               c \in (IF \E k \in DOMAIN a : a[k] = "output"
                      THEN OutputTexts ELSE {SqlText})} :
           a \in AttrLists}

\* The text of the heading that is the k-th event of the input.
HeadingText(k) == <<(<<"A", "B", "C", "D", "E", "F">>)[k]>>

\* Vec::truncate(len)
truncate(v, len) == IF len < Len(v) THEN SubSeq(v, 1, len) ELSE v

RECURSIVE join(_)
\* heading_stack.join("")
join(stack) == IF stack = <<>> THEN <<>> ELSE Head(stack) \o join(Tail(stack))

\* Mutant of Finalize: the pending test is dropped.
FinalizeDropPending(ts, cur) == ts

\* Lines 31-34 and 56-59: `if let Some(mut test) = current_test.take()`: the
\* pending test is pushed with ignore_output = true.
Finalize(ts, cur) ==
    IF cur = <<>> THEN ts ELSE Append(ts, [cur[1] EXCEPT !.ignore_output = TRUE])

InitParser ==
    /\ Start({<<>>})
    /\ errors = <<>>
    /\ ~input_paths_empty
    /\ ValidateOff
    /\ ParseOutputOff
    /\ DiffOff
    /\ consumed = <<>>
    /\ heading_stack = << <<>> >>               \* vec!["".to_string()]
    /\ tests = <<>>
    /\ current_test = <<>>
    /\ parser_state = "running"

\* Lines 16-19: BlockParser yields a heading of some level; "tick" is the
\* backquote that format! puts on either side of the text.
Heading ==
    /\ parser_state = "running"
    /\ Len(consumed) < MaxEvents
    /\ \E level \in 1..3 :
          LET text == HeadingText(Len(consumed) + 1) IN
          /\ consumed' = Append(consumed, [type |-> "Heading", level |-> level,
                                           text |-> text])
          /\ heading_stack' = Append(truncate(heading_stack, level),
                                     <<"tick">> \o text \o <<"tick">>)
    /\ UNCHANGED <<runVars, validateVars, parseOutputVars, diffVars,
                   tests, current_test, parser_state>>

\* Lines 20-52: BlockParser yields a code block.
CodeBlock ==
    /\ parser_state = "running"
    /\ Len(consumed) < MaxEvents
    /\ \E b \in CodeBlocks :
          LET starting_line == Len(consumed) + 1
              header == join(heading_stack)
              kind == parse_code_block_attrs(b.attributes)
          IN
          /\ consumed' = Append(consumed,
                 [type |-> "CodeBlock", starting_line |-> starting_line,
                  attributes |-> b.attributes, contents |-> b.contents])
          /\ CASE kind.kind = "Sql" ->
                    /\ tests' = Finalize(tests, current_test)
                    /\ current_test' =
                          <<[line |-> starting_line, header |-> header,
                             text |-> b.contents, output |-> <<>>,
                             transactional |-> kind.stateless,
                             ignore_output |-> kind.ignore_output]>>
                    /\ UNCHANGED parser_state
               [] kind.kind = "Output" ->
                    IF current_test = <<>>
                    THEN /\ parser_state' = "panicked_no_pending_test"   \* todo!()
                         /\ UNCHANGED <<tests, current_test>>
                    ELSE /\ tests' = Append(tests,
                                [current_test[1] EXCEPT
                                    !.output = parse_output(b.contents),
                                    !.ignore_output = kind.ignore])
                         /\ current_test' = <<>>
                         /\ UNCHANGED parser_state
               [] kind.kind = "todo" ->
                    /\ parser_state' = "panicked_stateful_output"
                    /\ UNCHANGED <<tests, current_test>>
               [] kind.kind = "Other" ->
                    UNCHANGED <<tests, current_test, parser_state>>
    /\ UNCHANGED <<runVars, validateVars, parseOutputVars, diffVars,
                   heading_stack>>

\* Lines 55-60: BlockParser is exhausted and the tests are returned.
EndOfInput ==
    /\ parser_state = "running"
    /\ tests' = Finalize(tests, current_test)
    /\ current_test' = <<>>
    /\ parser_state' = "returned"
    /\ UNCHANGED <<runVars, validateVars, parseOutputVars, diffVars,
                   consumed, heading_stack>>

NextParser ==
    \/ Heading
    \/ CodeBlock
    \/ EndOfInput

SpecParser == InitParser /\ [][NextParser]_vars

\* ========================================================== validate_output
\* db_output.rs on its own. A cell of a received row is an Option<&str>: <<>>
\* for None, <<s>> for Some(s).
ExpectedRows == {<<"1">>, <<"1.0">>, <<"">>, <<"1", "">>}

ReceivedRows == {<< <<"1">> >>, << <<>> >>, << <<"1">>, <<>> >>}

\* The messages of a query: the rows of its first statement and its
\* CommandComplete, then nothing or the messages of a second statement.
QueryMessages ==
    {[k \in DOMAIN rows |-> [type |-> "Row", r |-> rows[k]]]
        \o <<[type |-> "CommandComplete"]>> \o rest :
     rows \in UNION {[1..n -> ReceivedRows] : n \in 0..MaxRows},
     rest \in {<<>>, <<[type |-> "Row", r |-> << <<"1">> >>],
                       [type |-> "CommandComplete"]>>}}

ExpectedTests ==
    {[output |-> t, ignore_output |-> ig] :
        t \in UNION {[1..n -> ExpectedRows] : n \in 0..MaxRows},
        ig \in BOOLEAN}

\* Mutant of unwrap_or: None is rendered as a marker.
unwrap_or_null(value, default) == IF value = <<>> THEN "NULL" ELSE value[1]

\* Option::unwrap_or
unwrap_or(value, default) == IF value = <<>> THEN default ELSE value[1]

RECURSIVE ReceivedAll(_)
\* Mutant of Received: the rows of every statement are collected.
ReceivedAll(output) ==
    IF output = <<>> THEN <<>>
    ELSE IF Head(output).type = "Row"
         THEN << [c \in DOMAIN Head(output).r |-> unwrap_or(Head(output).r[c], "")] >>
              \o ReceivedAll(Tail(output))
         ELSE ReceivedAll(Tail(output))

RECURSIVE Received(_)
\* Lines 31-45: the loop over the messages, up to the first CommandComplete.
Received(output) ==
    IF output = <<>> THEN <<>>
    ELSE IF Head(output).type = "Row"
         THEN << [c \in DOMAIN Head(output).r |-> unwrap_or(Head(output).r[c], "")] >>
              \o Received(Tail(output))
         ELSE <<>>

\* Lines 25-64.
ValidateOutput(output, test) ==
    IF test.ignore_output THEN [kind |-> "Passed"]
    ELSE LET received == Received(output) IN
         IF Len(test.output) # Len(received)
         THEN [kind |-> "WrongNumberOfRows", received |-> received,
               expected |-> Len(test.output), found |-> Len(received)]
         ELSE IF test.output # received
         THEN [kind |-> "MismatchedValues", received |-> received]
         ELSE [kind |-> "Passed"]

InitValidate ==
    /\ Start({<<>>})
    /\ errors = <<>>
    /\ ~input_paths_empty
    /\ ParserOff
    /\ ParseOutputOff
    /\ DiffOff
    /\ vtest \in ExpectedTests
    /\ voutput \in QueryMessages
    /\ vresult = <<>>
    /\ vagain = <<>>

\* validate_output is called on the messages and the test.
Validate ==
    /\ vtest # <<>>
    /\ vresult = <<>>
    /\ vresult' = <<ValidateOutput(voutput, vtest)>>
    /\ UNCHANGED <<runVars, parserVars, parseOutputVars, diffVars, vtest, voutput, vagain>>

\* validate_output is called a second time on the same messages and test.
Revalidate ==
    /\ vresult # <<>>
    /\ vagain = <<>>
    /\ vagain' = <<ValidateOutput(voutput, vtest)>>
    /\ UNCHANGED <<runVars, parserVars, parseOutputVars, diffVars, vtest, voutput, vresult>>

NextValidate ==
    \/ Validate
    \/ Revalidate

SpecValidate == InitValidate /\ [][NextValidate]_vars

\* ============================================================= parse_output
\* test_parser.rs parse_output on its own, on the contents BlockParser makes
\* of the lines of a block.
BodyLines ==
    {<<>>, <<"1">>, <<" ", "1", " ">>, <<"1", "|", "2">>,
     <<" ", "1", " ", "|", " ">>}

RECURSIVE JoinLines(_)
\* contents.join("\n") of BlockParser::next
JoinLines(lines) ==
    IF lines = <<>> THEN <<>>
    ELSE IF Len(lines) = 1 THEN lines[1]
    ELSE lines[1] \o <<"\n">> \o JoinLines(Tail(lines))

InitParseOutput ==
    /\ Start({<<>>})
    /\ errors = <<>>
    /\ ~input_paths_empty
    /\ ParserOff
    /\ ValidateOff
    /\ DiffOff
    /\ body = <<>>
    /\ parsed = <<>>

\* BlockParser::next takes one more line that is not a fence.
TakeLine ==
    /\ parsed = <<>>
    /\ Len(body) < MaxLines
    /\ \E line \in BodyLines : body' = Append(body, line)
    /\ UNCHANGED <<runVars, parserVars, validateVars, diffVars, parsed>>

\* The closing fence: parse_output is called on the contents of the block.
ParseOutput ==
    /\ parsed = <<>>
    /\ parsed' = <<parse_output(JoinLines(body))>>
    /\ UNCHANGED <<runVars, parserVars, validateVars, diffVars, body>>

NextParseOutput ==
    \/ TakeLine
    \/ ParseOutput

SpecParseOutput == InitParseOutput /\ [][NextParseOutput]_vars

\* =============================================================== print_diff
\* db_output.rs print_diff on its own. A table is a sequence of rows, a row a
\* sequence of cells, a cell a sequence of characters; indexes start at 1.
DiffCells == {<<>>, <<"1">>}

DiffRows == {<<a>> : a \in DiffCells} \cup {<<a, b>> : a, b \in DiffCells}

DiffTables == UNION {[1..n -> DiffRows] : n \in 0..MaxRows}

EMPTY_ROW == <<>>

EMPTY_VAL == <<>>

\* std::cmp::max
max(a, b) == IF a >= b THEN a ELSE b

\* slice.get(k).unwrap_or(default)
Get(s, k, default) == IF k \in DOMAIN s THEN s[k] ELSE default

\* The room a pair of cells takes: the cell when both are equal, "-left+right"
\* otherwise.
CellWidth(l, r) == IF l = r THEN Len(l) ELSE Len(l) + Len(r) + 2

RECURSIVE WidthCols(_, _, _, _)
\* Lines 154-162: the columns j.. of one pair of rows; width[j] panics when j
\* is not an index of width.
WidthCols(st, l, r, j) ==
    IF ~st.ok \/ j > max(Len(l), Len(r)) THEN st
    ELSE IF j \notin DOMAIN st.width THEN [st EXCEPT !.ok = FALSE]
    ELSE WidthCols(
            [st EXCEPT !.width[j] =
                max(@, CellWidth(Get(l, j, EMPTY_VAL), Get(r, j, EMPTY_VAL)))],
            l, r, j + 1)

RECURSIVE WidthRows(_, _, _, _)
\* Lines 150-163: the rows row.. of the two tables.
WidthRows(st, l, r, row) ==
    IF ~st.ok \/ row > max(Len(l), Len(r)) THEN st
    ELSE WidthRows(WidthCols(st, Get(l, row, EMPTY_ROW), Get(r, row, EMPTY_ROW), 1),
                   l, r, row + 1)

\* Lines 142-163: width has as many columns as the wider of the two first
\* rows.
Widths(l, r) ==
    LET cols == max(Len(Get(l, 1, EMPTY_ROW)), Len(Get(r, 1, EMPTY_ROW)))
    IN  WidthRows([ok |-> TRUE, width |-> [j \in 1..cols |-> 0]], l, r, 1)

RECURSIVE PadCols(_, _, _, _, _)
\* Lines 171-192: the padding written before each cell of one pair of rows.
PadCols(acc, width, l, r, j) ==
    IF j > max(Len(l), Len(r)) THEN acc
    ELSE PadCols(
            Append(acc, width[j]
                        - CellWidth(Get(l, j, EMPTY_VAL), Get(r, j, EMPTY_VAL))),
            width, l, r, j + 1)

RECURSIVE PadRows(_, _, _, _, _)
\* Lines 167-194.
PadRows(acc, width, l, r, row) ==
    IF row > max(Len(l), Len(r)) THEN acc
    ELSE PadRows(PadCols(acc, width, Get(l, row, EMPTY_ROW), Get(r, row, EMPTY_ROW), 1),
                 width, l, r, row + 1)

InitDiff ==
    /\ Start({<<>>})
    /\ errors = <<>>
    /\ ~input_paths_empty
    /\ ParserOff
    /\ ValidateOff
    /\ ParseOutputOff
    /\ left \in DiffTables
    /\ right \in DiffTables
    /\ diff = <<>>

\* The first loop of print_diff: the column widths.
ComputeWidths ==
    /\ diff = <<>>
    /\ LET st == Widths(left, right) IN
       diff' = <<[outcome |-> IF st.ok THEN "widths" ELSE "index_out_of_bounds",
                  width |-> st.width, paddings |-> <<>>]>>
    /\ UNCHANGED <<runVars, parserVars, validateVars, parseOutputVars, left, right>>

\* The second loop of print_diff: the rows are written and printed.
WriteRows ==
    /\ diff # <<>>
    /\ diff[1].outcome = "widths"
    /\ diff' = <<[diff[1] EXCEPT
                    !.outcome = "completed",
                    !.paddings = PadRows(<<>>, diff[1].width, left, right, 1)]>>
    /\ UNCHANGED <<runVars, parserVars, validateVars, parseOutputVars, left, right>>

NextDiff ==
    \/ ComputeWidths
    \/ WriteRows

SpecDiff == InitDiff /\ [][NextDiff]_vars

\* ===================================================================== claims
InFlight == {running_tests[k] : k \in DOMAIN running_tests}

\* C1: the results of the stateless tests are reported in exactly the order in
\* which the tests were dispatched, the flattened file-then-source order: the
\* k-th "test ..." line printed is that of the k-th stateless test.
C1_ReportedInDispatchOrder ==
    /\ collected <= Len(reported)
    /\ collected <= dispatched
    /\ \A k \in 1..collected :
          reported[k] = TestLine(StatelessSeq[k].file, StatelessSeq[k].test)

\* C1 witness: three stateless tests of two files were dispatched and reported.
C1_Witness ==
    /\ pc = "stateful_start"
    /\ collected = 3
    /\ Len(fileBlocks) = 2
    /\ reported[1].file # reported[3].file

\* C2: on the session of one stateful file the requests go out one at a time
\* and test by test in source order: every request is answered before the next
\* one is sent, the tests of the requests never go back, and the queries sent
\* are those of tests 1, 2, ... with none left out.
C2_StatefulSourceOrder ==
    \A t \in InFlight :
       /\ \A p \in DOMAIN t.log :
             /\ t.log[p].ev = (IF p % 2 = 1 THEN "sent" ELSE "done")
             /\ p % 2 = 0 => t.log[p] = [t.log[p - 1] EXCEPT !.ev = "done"]
             /\ p > 1 => t.log[p - 1].test <= t.log[p].test
             /\ t.log[p].ev = "sent" /\ t.log[p].op # "rollback" =>
                   \A k \in 1..(t.log[p].test - 1) :
                      \E q \in 1..(p - 1) :
                         t.log[q] = [op |-> IF t.file.tests[k].transactional
                                            THEN "rollback" ELSE "query",
                                     test |-> k, ev |-> "done"]
       /\ t.out = "Ok" =>
             \A k \in DOMAIN t.file.tests :
                \E p \in DOMAIN t.log :
                   t.log[p] = [op |-> "query", test |-> k, ev |-> "sent"]

\* C2 witness: a file of two tests, the first transactional, has run to its end
\* while another file was in the middle of a query.
C2_Witness ==
    \E t, u \in InFlight :
       /\ t.out = "Ok"
       /\ Len(t.results) = 2
       /\ t.file.tests[1].transactional
       /\ u.pc = "query"

\* The effects a test of a stateful file must find: those of the earlier
\* non-transactional tests of the file whose query went through.
Cumulative(t, k) ==
    {j \in 1..(k - 1) : ~t.file.tests[j].transactional /\ t.results[j] # "err"}

\* C3: in a stateful file every test sees exactly the effects of the earlier
\* non-transactional tests of that file: a transactional test's effect is gone
\* before the next test starts, a non-transactional test's effect stays.
C3_StatefulCumulativeState ==
    \A t \in InFlight :
       /\ \A k \in DOMAIN t.seen : t.seen[k] = Cumulative(t, k)
       /\ t.pc # "rollback" => t.pending = {}
       /\ t.db = Cumulative(t, Len(t.results) + 1)

\* C3 witness: a file ran a non-transactional test, a transactional test and a
\* non-transactional test, all successful: the second and the third saw the
\* effect of the first, the third saw nothing of the second.
C3_Witness ==
    \E t \in InFlight :
       /\ Len(t.file.tests) = 3
       /\ ~t.file.tests[1].transactional
       /\ t.file.tests[2].transactional
       /\ t.results = <<"match", "match", "match">>
       /\ t.seen = <<{}, {1}, {1}>>

\* C4: every stateless test's transaction is rolled back, whatever the query
\* answered, before its result is sent and its session returned: the shared
\* database never holds an effect of a stateless test, and every stateless
\* query sees the database without any such effect.
C4_StatelessRolledBack ==
    /\ sharedDb = {}
    /\ \A e \in seenStateless : e.seen = {}
    /\ \A w \in workers : w.pc \in {"send", "return"} => w.pending = {}

\* C4 witness: two stateless tests have run, one whose query failed and one
\* whose query succeeded, and the session is back in the pool.
C4_Witness ==
    /\ Cardinality(seenStateless) = 2
    /\ Len(pool) = 1
    /\ workers = {}
    /\ \E a, b \in DOMAIN results :
          /\ results[a] # <<>> /\ results[a][1].result = "err"
          /\ results[b] # <<>> /\ results[b][1].result = "match"

Holders(c) ==
    Cardinality({k \in DOMAIN pool : pool[k] = c})
    + Cardinality({w \in workers : w.client = c})

\* C5: a session of the stateless pool is held by one holder at a time, the
\* pool channel or one worker task.
C5_SessionExclusive ==
    \A c \in 1..NumConns : Holders(c) <= 1

\* C5 witness: a worker runs a query on the session while a test is still
\* waiting to be dispatched.
C5_Witness ==
    /\ \E w \in workers : w.pc = "query" /\ Holders(w.client) = 1
    /\ dispatched < Len(StatelessSeq)


\* C6: the run ends with a failing result whenever at least one test of either
\* group failed, and whenever a fatal setup error occurred.
C6_FailingResultOnFailure ==
    pc = "done" =>
       /\ (failures1 # <<>> \/ failures2 # <<>>) => runResult = "Err"
       /\ exitPath # "completed" => runResult = "Err"

\* C7: on every way the run ends after the postmaster was spawned, teardown
\* (TestsEnv::drop) has run exactly once; it never runs twice, and it has run by
\* the time the run is over.
C7_TeardownExactlyOnce ==
    /\ dropCount <= 1
    /\ dropCount = 1 => postmaster # "none" /\ runResult # "none"
    /\ pc = "done" /\ postmaster # "none" => dropCount = 1
    /\ postmaster # "none" /\ runResult # "none" => dropCount = 1

\* C7 witness: the run ended with an error part-way through the stateless
\* tests, after a test was reported, and teardown has run.
C7_Witness ==
    /\ pc = "done"
    /\ exitPath = "stateless_dropdb"
    /\ collected >= 1
    /\ dropCount = 1

\* C8: an engine-level failure of one test, a failure to open its transaction
\* included, is recorded as that test's failure and stops nothing: a stateless
\* test whose transaction could not be opened still delivers a result, and a
\* stateful file that has started its tests ends with a result for each of
\* them, which is then reported.
C8_TestFailureNeverStopsRun ==
    /\ \A w \in workers : w.out = "err" => w.pc \in {"rollback", "send", "return"}
    /\ \A t \in InFlight :
          t.pc = "done" /\ t.idx >= 1 =>
             /\ t.out = "Ok"
             /\ Len(t.results) = Len(t.file.tests)

\* C9: the stateful files in flight (admitted and not yet collected) are never
\* more than 4.
C9_InFlightAtMostFour ==
    Len(running_tests) <= 4

\* C9 witness: a fifth file was admitted after one of the first four was
\* collected, and four files are in flight.
C9_Witness ==
    /\ Len(running_tests) = 4
    /\ i = 5
    /\ running_tests[4].db_num = 5

\* C10, as the spec states it: whenever one of the files in flight has finished
\* and files are still queued, the next file can be admitted at once: the loop
\* is not waiting for another file in flight.
C10_AdmitWhenAnyFinishes ==
    (/\ pc = "stateful_loop"
     /\ filesIter # <<>>
     /\ \E t \in InFlight : t.pc = "done")
    => Head(running_tests).pc = "done"

\* C10 amended: while files are queued, a file is admitted exactly in the step
\* that collects the earliest-admitted file in flight, which has finished; the
\* files in flight otherwise keep their places, also those already finished.
C10_AdmitWhenHeadFinishes ==
    [][(pc = "stateful_loop" /\ filesIter # <<>>) =>
          /\ Len(running_tests') = Len(running_tests)
          /\ filesIter' # filesIter <=>
                /\ Head(running_tests).pc = "done"
                /\ running_tests' = Append(Tail(running_tests),
                                           test_runner(Head(filesIter), i + 1))
          /\ filesIter' = filesIter =>
                \A k \in DOMAIN running_tests :
                   running_tests'[k].db_num = running_tests[k].db_num]_vars

\* C10 witness: the fifth file was admitted when the first was collected, and
\* a later file has finished ahead of an earlier one, which holds its slot.
C10_Witness ==
    /\ i = 5
    /\ Len(running_tests) = 4
    /\ running_tests[4].db_num = 5
    /\ running_tests[1].pc # "done"
    /\ running_tests[2].pc = "done"

\* C11: before the first stateless test is dispatched, the pool of unused
\* clients holds 4 connected sessions.
C11_PoolHoldsFourSessions ==
    (pc = "stateless_dispatch" /\ dispatched = 0) => Len(pool) = 4

\* A sequence of file names that follows the input order without repeating a
\* file (a file's name is its position in the input).
InInputOrder(names) ==
    \A a, b \in DOMAIN names : a < b => names[a] < names[b]

\* C12: the per-file result blocks and the headings of the final failure
\* listing name the files in input order, each file once, whatever the mix of
\* stateless and stateful files.
C12_BlocksInInputOrder ==
    /\ InInputOrder(fileBlocks)
    /\ exitPath = "completed" =>
          InInputOrder(SummaryHeadings(failures1 \o failures2, 0))

\* C13: every extracted file has stateless equal to the conjunction of
\* transactional over its tests; only files with the flag set feed the shared
\* stateless database, only files without it the pipeline of stateful files;
\* so every test run in the shared database is transactional.
C13_StatelessIsConjunction ==
    /\ \A k \in DOMAIN files :
          files[k].stateless =
              (\A j \in DOMAIN files[k].tests : files[k].tests[j].transactional)
    /\ \A k \in DOMAIN StatelessSeq : StatelessSeq[k].test.transactional
    /\ \A w \in workers : w.test.transactional
    /\ \A k \in DOMAIN results :
          results[k] # <<>> => results[k][1].test.transactional
    /\ \A k \in DOMAIN running_tests : ~running_tests[k].file.stateless
    /\ \A k \in DOMAIN filesIter : ~filesIter[k].stateless

\* A file of two marked blocks with one transactional test each (both tests
\* carry line 1) has had both tests run in the shared database, next to a file
\* with no test.
C13_Witness ==
    /\ Len(files) = 2
    /\ files[1].tests = <<>>
    /\ Len(files[2].tests) = 2
    /\ files[2].tests[2].line = 1
    /\ files[2].stateless
    /\ collected = 2

\* C14: with the engine still running, the database created for a stateful
\* file is gone once the file's task has ended, and none is left when
\* run_stateful_tests returns.
C14_StatefulDbsDropped ==
    postmaster = "running" =>
       /\ \A k \in DOMAIN running_tests :
             running_tests[k].pc = "done" =>
                dbname(running_tests[k].db_num) \notin databases
       /\ pc = "summary" => \A n \in 1..i : dbname(n) \notin databases

\* C15: no two stateful files of a run are given the same database name, and
\* the connection a file's task opens is to the database created for that file,
\* so no database is connected to by the task of another file.
C15_OwnDatabasePerFile ==
    /\ \A a, b \in DOMAIN admitted :
          a # b => /\ admitted[a].db_num # admitted[b].db_num
                   /\ admitted[a].conn = <<>> \/ admitted[a].conn # admitted[b].conn
    /\ \A a \in DOMAIN admitted :
          /\ admitted[a].conn \in {<<>>, <<dbname(admitted[a].db_num)>>}
          /\ dbname(admitted[a].db_num) # stateless_test_db

\* Five stateful files have been given databases (the fifth in the loop, the
\* first four before it) and all five tasks have connected.
C15_Witness ==
    /\ Len(admitted) = 5
    /\ \A a \in DOMAIN admitted : admitted[a].conn # <<>>

\* C16: CREATE ROLE is executed at most once in a run, however many databases
\* the run creates.
C16_CreateRoleAtMostOnce == createRoleCount <= 1

\* The shared database and the databases of two stateful files have been
\* created, and CREATE ROLE has run once.
C16_Witness ==
    /\ createRoleCount = 1
    /\ Len(admitted) = 2
    /\ {dbname(admitted[1].db_num), dbname(admitted[2].db_num)} \subseteq databases

\* The steps teardown has taken so far.
DropSteps == {dropLog[k] : k \in DOMAIN dropLog}

\* The position of a step in the teardown log (0: not taken).
StepAt(step) ==
    IF step \in DropSteps THEN CHOOSE k \in DOMAIN dropLog : dropLog[k] = step ELSE 0

\* C17: when teardown finds the postmaster running, it signals it, waits for
\* it, renames the logs and only then deletes the storage directory, in this
\* order; the directory is never deleted while the postmaster is running.
C17_SignalWaitRenameDelete ==
    /\ (dropCount = 1 /\ "delete" \in DropSteps) =>
          /\ dropLog[1] = "running"
          /\ 0 < StepAt("signal")
          /\ StepAt("signal") < StepAt("wait")
          /\ StepAt("wait") < StepAt("rename")
          /\ StepAt("rename") < StepAt("delete")
    /\ (dropCount = 1 /\ tempDir = "deleted") => postmaster = "exited"

\* C18: when teardown finds that the postmaster has already exited, it renames
\* the logs to their permanent names and does nothing else: the storage
\* directory is left in place.
C18_CrashedKeepsDirectory ==
    "exited" \in DropSteps =>
       /\ pc = "done"
       /\ dropLog = <<"exited", "rename">>
       /\ logs = <<"postmaster-out.log", "postmaster-err.log">>
       /\ tempDir = "exists"

\* The postmaster exited while the stateful files were running, the run went
\* on to its summary, and teardown took the crashed path.
C18_Witness ==
    /\ "exited" \in DropSteps
    /\ exitPath = "completed"
    /\ admitted # <<>>

\* C19: when kill fails, the error is reported and teardown ends there: the
\* postmaster is not waited for and still runs, the logs keep their temporary
\* names and the storage directory stays.
C19_KillFailureStopsTeardown ==
    "kill_error" \in DropSteps =>
       /\ pc = "done"
       /\ dropLog = <<"running", "kill_error", "report_kill_error">>
       /\ postmaster = "running"
       /\ logs = <<"postmaster-stdout.temp.log", "postmaster-stderr.temp.log">>
       /\ tempDir = "exists"

\* A run that completed its tests, whose teardown could not signal the
\* postmaster.
C19_Witness ==
    /\ "kill_error" \in DropSteps
    /\ exitPath = "completed"
    /\ pc = "done"

\* The report teardown makes of each failure.
ShutdownReport ==
    [try_wait_error |-> "report_try_wait_error",
     kill_error |-> "report_kill_error",
     wait_error |-> "report_wait_error"]

\* C20: every failure during teardown, of signal delivery or of waiting for
\* the postmaster, is reported, and the result of the run stays what the tests
\* made it.
C20_ShutdownErrorsReported ==
    /\ \A f \in DOMAIN ShutdownReport :
          f \in DropSteps => ShutdownReport[f] \in DropSteps
    /\ (dropCount = 1 /\ exitPath = "completed") =>
          verdict = IF failures1 = <<>> /\ failures2 = <<>> THEN "ok" ELSE "FAILED"

\* C21: the names the logs are given when the postmaster was found exited
\* differ from the names they are given after a clean shutdown
\* (postmaster-out.log and postmaster-err.log, as in C17).
C21_CrashLogNamesDiffer ==
    ("exited" \in DropSteps /\ "rename" \in DropSteps) =>
       /\ logs[1] # "postmaster-out.log"
       /\ logs[2] # "postmaster-err.log"

\* Some test has been handed to the engine.
TestExecuted ==
    \/ dispatched > 0
    \/ workers # {}
    \/ \E k \in DOMAIN admitted : admitted[k].conn # <<>>

\* C22: the health check is left successfully only by a probe that connected;
\* a failed probe that finds the postmaster exited ends it at once with an
\* error; it ends with an error when the 60 seconds have passed without a
\* successful probe; and no test is executed unless it succeeded.
C22_HealthCheckGatesTests ==
    /\ pc = "health" => probe \in {"none", "failed"} /\ elapsed <= HealthTimeoutSecs
    /\ pc \in {"stateless_createdb", "stateless_connect", "stateless_dispatch",
               "stateless_collect", "stateful_start", "stateful_loop", "summary"}
          => probe = "ok"
    /\ probe = "failed_exited" =>
          /\ exitPath = "health_exit"
          /\ runResult = "Err"
          /\ postmaster = "exited"
    /\ exitPath = "health_timeout" => probe = "failed" /\ runResult = "Err"
    /\ TestExecuted \/ databases # {} \/ reported # <<>> => probe = "ok"

\* A probe failed and found the postmaster exited: the run is over with an
\* error, no test was executed, teardown took the crashed path.
C22_Witness ==
    /\ probe = "failed_exited"
    /\ pc = "done"
    /\ ~TestExecuted

\* C23: when extraction gave an error for some input file, no engine is
\* provisioned and no test executed, and the run ends with an error that
\* carries the message of every extraction error, in input order.
C23_ExtractionErrorsAbortRun ==
    (~input_paths_empty /\ errors # <<>>) =>
       /\ pc \in {"main", "done"}
       /\ postmaster = "none"
       /\ tempDir = "none"
       /\ ~TestExecuted
       /\ databases = {}
       /\ pc = "done" =>
             /\ runResult = "Err"
             /\ Len(errorReport) = Len(errors)
             /\ \A k \in DOMAIN errors : errorReport[k] = errors[k].err

\* Two files failed extraction next to a file with tests; the run is over and
\* both messages were reported.
C23_Witness ==
    /\ Len(errors) = 2
    /\ files # <<>>
    /\ files[1].tests # <<>>
    /\ pc = "done"
    /\ Len(errorReport) = 2

\* ---------------------------------------------------------- parser claims
\* What the attribute list of an event says, read off the tokens as written.
HasToken(e, words) ==
    /\ e.type = "CodeBlock"
    /\ \E k \in DOMAIN e.attributes : e.attributes[k] \in words

Ignored(e) == HasToken(e, {"ignore", "Ignore"})
OutputBlock(e) == HasToken(e, {"output"}) /\ ~Ignored(e)
SqlBlock(e) == HasToken(e, {"sql", "SQL"}) /\ ~Ignored(e) /\ ~OutputBlock(e)

\* A test is pending just before event k: the last sql or output block before
\* k is an sql block.
PendingBefore(k) ==
    \E j \in 1..(k - 1) :
       /\ SqlBlock(consumed[j])
       /\ \A m \in (j + 1)..(k - 1) :
             ~SqlBlock(consumed[m]) /\ ~OutputBlock(consumed[m])

\* C24: extract_tests_from_string never aborts, whatever the text holds: not
\* on an output block with no pending sql block, and not on an output block
\* marked stateful.
C24_ParserNeverAborts ==
    parser_state \notin {"panicked_no_pending_test", "panicked_stateful_output"}

\* C25: an output block met while no test is pending makes extraction return
\* an error for the file.
C25_OrphanOutputIsExtractionError ==
    (\E k \in DOMAIN consumed :
        /\ OutputBlock(consumed[k])
        /\ ~HasToken(consumed[k], {"stateful"})
        /\ ~PendingBefore(k))
    => parser_state = "returned_err"

\* The positions of the sql blocks, in source order.
SqlPositions ==
    SelectSeq([k \in DOMAIN consumed |-> k], LAMBDA k : SqlBlock(consumed[k]))

\* The output blocks between the sql block at position p and the next sql
\* block or the end of the input.
OutputsAfter(p) ==
    {r \in (p + 1)..Len(consumed) :
        /\ OutputBlock(consumed[r])
        /\ \A m \in (p + 1)..(r - 1) : ~SqlBlock(consumed[m])}

RECURSIVE EnclosingHeadings(_)
\* The headings that enclose what follows the first n events: a heading of
\* level L removes the earlier headings of level L or deeper and is added.
EnclosingHeadings(n) ==
    IF n = 0 THEN <<>>
    ELSE LET e == consumed[n]
             before == EnclosingHeadings(n - 1)
         IN  IF e.type = "Heading"
             THEN Append(SelectSeq(before, LAMBDA h : h.level < e.level), e)
             ELSE before

ExpectedHeader(n) ==
    LET path == EnclosingHeadings(n)
    IN  join([k \in DOMAIN path |-> <<"tick">> \o path[k].text \o <<"tick">>])

\* C27: after any sequence of headings the composite header is the
\* concatenation of the headings that enclose the current position, and the
\* header of a test is the one at the point of its sql block.
C27_HeaderIsEnclosingHeadings ==
    parser_state # "off" =>
       /\ join(heading_stack) = ExpectedHeader(Len(consumed))
       /\ \A j \in DOMAIN tests :
             tests[j].header = ExpectedHeader(tests[j].line - 1)

\* C28: a code block with the token ignore, in either letter case and next to
\* any other token, is classified Other and no test comes from it.
C28_IgnoreWins ==
    \A k \in DOMAIN consumed :
       Ignored(consumed[k]) =>
          /\ parse_code_block_attrs(consumed[k].attributes).kind = "Other"
          /\ \A j \in DOMAIN tests : tests[j].line # k
          /\ \A j \in DOMAIN current_test : current_test[j].line # k

\* An sql block, then blocks marked "SQL, Ignore" and "output, ignore": the
\* one test returned is that of the first block, left without output.
C28_Witness ==
    /\ parser_state = "returned"
    /\ Len(consumed) = 3
    /\ SqlBlock(consumed[1])
    /\ Ignored(consumed[2]) /\ consumed[2].attributes = <<"SQL", "Ignore">>
    /\ Ignored(consumed[3]) /\ consumed[3].attributes = <<"output", "ignore">>
    /\ Len(tests) = 1
    /\ tests[1].ignore_output

\* C29: the test of an sql block marked ignore-output has ignore_output =
\* true, whether or not an output block follows it.
C29_IgnoreOutputAttribute ==
    \A j \in DOMAIN tests :
       HasToken(consumed[tests[j].line], {"ignore-output"}) => tests[j].ignore_output

\* ------------------------------------------------------- validator claims
\* The rows of the first statement, as strings: a missing value is the empty
\* string.
ActualRows ==
    LET n == (CHOOSE k \in DOMAIN voutput : 
                 /\ voutput[k].type = "CommandComplete"
                 /\ \A j \in 1..(k - 1) : voutput[j].type = "Row") - 1
    IN  [k \in 1..n |->
            [c \in DOMAIN voutput[k].r |->
                IF voutput[k].r[c] = <<>> THEN "" ELSE voutput[k].r[c][1]]]

\* Two tables of as many rows agree in every cell.
SameCells(expected, actual) ==
    \A k \in DOMAIN expected :
       /\ Len(expected[k]) = Len(actual[k])
       /\ \A c \in DOMAIN expected[k] : expected[k][c] = actual[k][c]

\* C30: validate_output gives Passed when ignore_output is set; otherwise
\* WrongNumberOfRows with both counts when the numbers of rows differ;
\* otherwise MismatchedValues with the actual rows when some cell differs as a
\* string, a missing value being the empty string; otherwise Passed. A second
\* call gives the same result.
C30_ValidateOutput ==
    /\ vresult # <<>> =>
          LET res == vresult[1] IN
          IF vtest.ignore_output THEN res = [kind |-> "Passed"]
          ELSE IF Len(vtest.output) # Len(ActualRows)
          THEN /\ res.kind = "WrongNumberOfRows"
               /\ res.expected = Len(vtest.output)
               /\ res.found = Len(ActualRows)
               /\ res.received = ActualRows
          ELSE IF ~SameCells(vtest.output, ActualRows)
          THEN /\ res.kind = "MismatchedValues"
               /\ res.received = ActualRows
          ELSE res = [kind |-> "Passed"]
    /\ vagain # <<>> => vagain = vresult

\* A checked test expecting the row ("1", "") has passed, twice, on a row
\* whose second value is missing.
C30_Witness ==
    /\ vagain # <<>>
    /\ vresult[1].kind = "Passed"
    /\ ~vtest.ignore_output
    /\ vtest.output = << <<"1", "">> >>
    /\ voutput[1].r = << <<"1">>, <<>> >>

\* ---------------------------------------------------- parse_output claims
\* The places of the column separators of a line, with both ends.
Bars(line) == {0, Len(line) + 1} \cup {k \in DOMAIN line : line[k] = "|"}

\* The text of a line between two places, without the blanks around it.
Between(line, a, b) ==
    LET inner == {k \in (a + 1)..(b - 1) : line[k] # " "}
    IN  IF inner = {} THEN <<>>
        ELSE LET lo == CHOOSE k \in inner : \A j \in inner : k <= j
                 hi == CHOOSE k \in inner : \A j \in inner : k >= j
             IN  SubSeq(line, lo, hi)

\* The cells of a line: the texts between consecutive separators.
CellsOf(line) ==
    LET bars == Bars(line)
        Nth(c) == CHOOSE b \in bars : Cardinality({x \in bars : x < b}) = c
    IN  [c \in 1..(Cardinality(bars) - 1) |-> Between(line, Nth(c - 1), Nth(c))]

\* C31: parse_output drops the first two lines of the body and makes one row
\* of each remaining line, its cells the trimmed texts between the '|'
\* separators; there are max(0, lines - 2) rows, none for an empty body.
C31_ParseOutputRows ==
    parsed # <<>> =>
        LET rows == parsed[1] IN
        /\ Len(rows) = (IF Len(body) > 2 THEN Len(body) - 2 ELSE 0)
        /\ \A k \in DOMAIN rows : rows[k] = CellsOf(body[k + 2])
        /\ body = <<>> => rows = <<>>

\* A body of three lines has given one row of two cells, the second empty.
C31_Witness ==
    /\ parsed # <<>>
    /\ Len(body) = 3
    /\ body[3] = <<" ", "1", " ", "|", " ">>
    /\ parsed[1] = << << <<"1">>, <<>> >> >>

\* ------------------------------------------------------ print_diff claims
\* C32: print_diff completes for every pair of tables, also when a later row
\* is wider than the first rows: no column index is outside the width vector
\* and no padding is negative.
C32_PrintDiffCompletes ==
    diff # <<>> =>
        /\ diff[1].outcome # "index_out_of_bounds"
        /\ \A k \in DOMAIN diff[1].paddings : diff[1].paddings[k] >= 0

\* ------------------------------------------------------- accounting claims
\* The tests that went through print_test_result (executed and validated)
\* and were not recorded as a failure by it.
ValidatedPassed == Len(reported) - (Len(failures1) + Len(failures2))

\* The "test ..." lines of all tests of all input files.
AllTestLines ==
    LET all == Flatten(files)
    IN  [k \in DOMAIN all |-> TestLine(all[k].file, all[k].test)]

\* How often a line occurs in a sequence of lines.
Occurrences(line, lines) == Cardinality({k \in DOMAIN lines : lines[k] = line})

\* C33: when the summary is printed every test of every file was reported
\* exactly once, and the number it gives as passed is the number of tests that
\* were executed and validated as Passed, also when the setup of a stateful
\* file failed.
C33_EveryTestAccountedFor ==
    verdict # "none" =>
        /\ num_passed = ValidatedPassed
        /\ \A k \in DOMAIN AllTestLines :
              Occurrences(AllTestLines[k], reported)
                 = Occurrences(AllTestLines[k], AllTestLines)

\* ------------------------------------------------------------ pool claims
\* C34: a worker task never sends its session into the channel of unused
\* clients after the orchestrator dropped the receiving end: while a worker
\* has its session to return the receiving end is there, and no worker has
\* panicked on the unwrap of a failed send.
C34_SessionReturnSucceeds ==
    /\ ~panicked
    /\ workers # {} => clientsOpen /\ pc = "stateless_dispatch"

\* Two tests were dispatched, both workers have returned the session, the
\* results were collected and the receiving end is dropped.
C34_Witness ==
    /\ dispatched = 2
    /\ collected = 2
    /\ workers = {}
    /\ ~clientsOpen
    /\ ~panicked

\* C35: once run_stateless_tests is at its dispatch loop it eventually has
\* dispatched every stateless test, collected every result and returned,
\* whatever the number of tests.
C35_StatelessTerminates ==
    (pc = "stateless_dispatch")
        ~> (/\ pc \notin {"stateless_dispatch", "stateless_collect"}
            /\ dispatched = Len(StatelessSeq)
            /\ collected = Len(StatelessSeq)
            /\ workers = {})

\* run_stateless_tests has returned after three tests went through the one
\* session of the pool.
C35_Witness ==
    /\ pc = "stateful_start"
    /\ Len(StatelessSeq) = 3
    /\ dispatched = 3
    /\ collected = 3

\* ----------------------------------------------------- attachment claims
\* A code block with the token sql, marked ignore or not.
HasSqlToken(e) == HasToken(e, {"sql", "SQL"})

\* The output block that was attached to the test of the sql block at p: the
\* first one after it.
AttachedOutput(p) ==
    CHOOSE r \in OutputsAfter(p) : \A q \in OutputsAfter(p) : r <= q

\* C36: an output block is attached only to the test of the nearest sql block
\* before it: no other sql block, not even one marked ignore, lies between
\* the sql block of a test and the output block attached to it.
C36_OutputAttachesToNearestSql ==
    \A j \in DOMAIN tests :
       ~tests[j].ignore_output =>
          LET p == SqlPositions[j] IN
          \A m \in (p + 1)..(AttachedOutput(p) - 1) : ~HasSqlToken(consumed[m])

\* ------------------------------------------------- several-statement claims
\* The place of the first CommandComplete among the messages.
FirstComplete(output) ==
    CHOOSE k \in DOMAIN output :
        /\ output[k].type = "CommandComplete"
        /\ \A j \in 1..(k - 1) : output[j].type # "CommandComplete"

\* The messages of the first statement, its CommandComplete included.
FirstStatement(output) == SubSeq(output, 1, FirstComplete(output))

\* C37: the result of validate_output depends only on the messages up to the
\* first CommandComplete: any messages with the same first statement, with or
\* without the rows of a later statement, give the same result.
C37_LaterStatementsIgnored ==
    vresult # <<>> =>
        \A other \in QueryMessages :
            FirstStatement(other) = FirstStatement(voutput) =>
                ValidateOutput(other, vtest) = vresult[1]

\* The first statement returned no row and the second one the row the test
\* expects: the test failed with zero rows found.
C37_Witness ==
    /\ vresult # <<>>
    /\ ~vtest.ignore_output
    /\ vtest.output = << <<"1">> >>
    /\ Len(voutput) = 3
    /\ voutput[1].type = "CommandComplete"
    /\ voutput[2].type = "Row"
    /\ vresult[1].kind = "WrongNumberOfRows"
    /\ vresult[1].found = 0

====
